---- MODULE Spec2Model ----
(***************************************************************************)
(* Model of certgen/tls/certificate.go: the certificate-issuance engine.   *)
(*                                                                         *)
(* Go strings and []byte values are sequences of octets (0..255).  A       *)
(* value the code may leave nil (a pointer, an error, a *big.Int) is a     *)
(* sequence of length 0 or 1.  The library calls the file makes            *)
(* (encoding/hex, math/big, net, net/url, crypto/x509) are modelled by     *)
(* what they compute on the model's inputs; DER is modelled by a           *)
(* tag-length-value layout that keeps its framing (a truncated encoding    *)
(* does not parse) and not its exact octets.                               *)
(***************************************************************************)
EXTENDS Integers, Sequences, FiniteSets, TLC

\* ------------------------------------------------------------------------
\* Bounds of the model.

\* Key pairs the random source hands out in one behaviour: every call of
\* GenerateCertificate draws one, so this bounds the calls of a behaviour.
MaxKeys == 3
\* Calls of GenerateCertificate that may be in progress at the same time.
MaxCalls == 2
\* Longest AlternateNames list of a request.
MaxAltNames == 2
\* Stored records the storage damages in one behaviour.
MaxDamage == 1

\* ------------------------------------------------------------------------
\* Octet sequences.

\* The sequences ss[lo], ..., ss[hi] joined.
RECURSIVE FlattenRange(_, _, _)
FlattenRange(ss, lo, hi) ==
    IF lo > hi THEN <<>>
    ELSE IF lo = hi THEN ss[lo]
    ELSE FlattenRange(ss, lo, (lo + hi) \div 2)
         \o FlattenRange(ss, (lo + hi) \div 2 + 1, hi)

Flatten(ss) == FlattenRange(ss, 1, Len(ss))

\* s[from..] (1-based), empty when from is past the end.
Drop(s, from) == SubSeq(s, from, Len(s))

\* The least number of S, or none when S is empty.
Least(S, none) == IF S = {} THEN none ELSE CHOOSE i \in S : \A j \in S : i <= j

\* The least index >= i at which s holds octet c, or Len(s) + 1.
IndexFrom(s, c, i) == Least({j \in i..Len(s) : s[j] = c}, Len(s) + 1)

IsDigit(c) == c >= 48 /\ c <= 57
IsLetter(c) == (c >= 97 /\ c <= 122) \/ (c >= 65 /\ c <= 90)
IsHexDigit(c) == IsDigit(c) \/ (c >= 97 /\ c <= 102) \/ (c >= 65 /\ c <= 70)
ToLower(s) == [i \in 1..Len(s) |-> IF s[i] >= 65 /\ s[i] <= 90 THEN s[i] + 32 ELSE s[i]]

\* ------------------------------------------------------------------------
\* encoding/hex, as used at lines 203, 211, 270 and 338.

HexDigit(n) == IF n < 10 THEN 48 + n ELSE 87 + n

EncodeToString(b) ==
    [i \in 1..(2 * Len(b)) |->
        IF i % 2 = 1 THEN HexDigit(b[(i + 1) \div 2] \div 16)
                     ELSE HexDigit(b[i \div 2] % 16)]

FromHexChar(c) ==
    IF IsDigit(c) THEN c - 48
    ELSE IF c >= 97 /\ c <= 102 THEN c - 87
    ELSE IF c >= 65 /\ c <= 70 THEN c - 55
    ELSE -1

\* hex.DecodeString: an error on an odd length or on an octet that is no hex digit.
DecodeString(s) ==
    IF Len(s) % 2 = 1 \/ \E i \in 1..Len(s) : FromHexChar(s[i]) = -1
    THEN [ok |-> FALSE, val |-> <<>>]
    ELSE [ok |-> TRUE,
          val |-> [i \in 1..(Len(s) \div 2) |->
                      16 * FromHexChar(s[2 * i - 1]) + FromHexChar(s[2 * i])]]

\* ------------------------------------------------------------------------
\* math/big: a non-negative *big.Int is its magnitude, big-endian octets
\* without leading zeros (zero is the empty sequence).

RECURSIVE SetBytes(_)
SetBytes(b) ==
    IF b = <<>> THEN <<>>
    ELSE IF Head(b) = 0 THEN SetBytes(Tail(b)) ELSE b

\* Long division of a magnitude by 10: <<quotient octets, remainder>>.
RECURSIVE DivTen(_, _, _)
DivTen(m, rem, acc) ==
    IF m = <<>> THEN <<SetBytes(acc), rem>>
    ELSE LET cur == rem * 256 + Head(m)
         IN DivTen(Tail(m), cur % 10, Append(acc, cur \div 10))

RECURSIVE Digits(_)
Digits(m) ==
    IF m = <<>> THEN <<>>
    ELSE LET qr == DivTen(m, 0, <<>>)
         IN Append(Digits(qr[1]), 48 + qr[2])

\* (*big.Int).String: the decimal digits, "0" for zero.
BigString(m) == IF m = <<>> THEN <<48>> ELSE Digits(m)

\* ------------------------------------------------------------------------
\* net.ParseIP (line 298).  A net.IP is 16 octets (ParseIP's result) or 4.

V4InV6(a) == <<0, 0, 0, 0, 0, 0, 0, 0, 0, 0, 255, 255>> \o a

\* Dotted decimal: four fields of one to three digits, each at most 255 and
\* without a leading zero.  fields holds the finished fields, val and n the
\* value and digit count of the one being read.
RECURSIVE ParseIPv4(_, _, _, _, _)
ParseIPv4(s, i, fields, val, n) ==
    IF i > Len(s)
    THEN IF n > 0 /\ Len(fields) = 3
         THEN [ok |-> TRUE, val |-> V4InV6(Append(fields, val))]
         ELSE [ok |-> FALSE, val |-> <<>>]
    ELSE IF IsDigit(s[i])
    THEN IF (n > 0 /\ val = 0) \/ val * 10 + (s[i] - 48) > 255
         THEN [ok |-> FALSE, val |-> <<>>]
         ELSE ParseIPv4(s, i + 1, fields, val * 10 + (s[i] - 48), n + 1)
    ELSE IF s[i] = 46 /\ n > 0 /\ Len(fields) < 3
    THEN ParseIPv4(s, i + 1, Append(fields, val), 0, 0)
    ELSE [ok |-> FALSE, val |-> <<>>]

HexValue(c) == IF IsDigit(c) THEN c - 48 ELSE IF c >= 97 THEN c - 87 ELSE c - 55

\* The hex digits of s that stand in a row from place p on, counted.
RECURSIVE HexRun(_, _)
HexRun(s, p) ==
    IF p <= Len(s) /\ IsHexDigit(s[p]) THEN 1 + HexRun(s, p + 1) ELSE 0

\* The number a string of hex digits writes.
RECURSIVE HexNumber(_)
HexNumber(h) ==
    IF h = <<>> THEN 0
    ELSE HexNumber(SubSeq(h, 1, Len(h) - 1)) * 16 + HexValue(h[Len(h)])

Zeros(n) == [i \in 1..n |-> 0]

\* The end of the IPv6 reader: ip holds the octets read, ellipsis how many
\* of them stood before the "::" (-1: no "::"), which fills up to 16
\* octets with zeros and must stand for at least one group.
ExpandIPv6(ip, ellipsis) ==
    IF Len(ip) < 16
    THEN IF ellipsis < 0 THEN [ok |-> FALSE, val |-> <<>>]
         ELSE [ok |-> TRUE,
               val |-> SubSeq(ip, 1, ellipsis) \o Zeros(16 - Len(ip))
                       \o SubSeq(ip, ellipsis + 1, Len(ip))]
    ELSE IF ellipsis >= 0 THEN [ok |-> FALSE, val |-> <<>>]
    ELSE [ok |-> TRUE, val |-> ip]

\* The IPv6 reader's loop, at the group that begins at place p: one to four
\* hex digits, then the end, a ':' with more to follow, a "::", or, when the
\* group is the first field of a dotted IPv4 tail, that tail.
RECURSIVE ParseIPv6Groups(_, _, _, _)
ParseIPv6Groups(s, p, ip, ellipsis) ==
    LET bad == [ok |-> FALSE, val |-> <<>>]
        run == HexRun(s, p)
        acc == HexNumber(SubSeq(s, p, p + run - 1))
        q == p + run
        ip2 == ip \o <<acc \div 256, acc % 256>>
        v4 == ParseIPv4(Drop(s, p), 1, <<>>, 0, 0)
    IN IF Len(ip) >= 16
       THEN IF p <= Len(s) THEN bad ELSE ExpandIPv6(ip, ellipsis)
       ELSE IF run = 0 \/ run > 4 THEN bad
       ELSE IF q <= Len(s) /\ s[q] = 46
       THEN IF (ellipsis < 0 /\ Len(ip) # 12) \/ Len(ip) + 4 > 16 \/ ~v4.ok
            THEN bad
            ELSE ExpandIPv6(ip \o SubSeq(v4.val, 13, 16), ellipsis)
       ELSE IF q > Len(s) THEN ExpandIPv6(ip2, ellipsis)
       ELSE IF s[q] # 58 \/ q = Len(s) THEN bad
       ELSE IF s[q + 1] = 58
       THEN IF ellipsis >= 0 THEN bad
            ELSE IF q + 2 > Len(s) THEN ExpandIPv6(ip2, Len(ip2))
            ELSE ParseIPv6Groups(s, q + 2, ip2, Len(ip2))
       ELSE ParseIPv6Groups(s, q + 1, ip2, ellipsis)

\* IPv6 literals.  ParseIP takes none with a zone.
ParseIPv6(s) ==
    IF \E i \in 1..Len(s) : s[i] = 37 THEN [ok |-> FALSE, val |-> <<>>]
    ELSE IF Len(s) >= 2 /\ s[1] = 58 /\ s[2] = 58
    THEN IF Len(s) = 2 THEN [ok |-> TRUE, val |-> Zeros(16)]
         ELSE ParseIPv6Groups(s, 3, <<>>, 0)
    ELSE ParseIPv6Groups(s, 1, <<>>, -1)

\* ParseIP tells the forms apart by the first '.', ':' or '%' of the text.
ParseIP(s) ==
    LET dot == IndexFrom(s, 46, 1)
        colon == IndexFrom(s, 58, 1)
        percent == IndexFrom(s, 37, 1)
    IN IF dot <= Len(s) /\ dot < colon /\ dot < percent
       THEN ParseIPv4(s, 1, <<>>, 0, 0)
       ELSE IF colon <= Len(s) /\ colon < percent THEN ParseIPv6(s)
       ELSE [ok |-> FALSE, val |-> <<>>]

\* (net.IP).To4: the 4-octet form of an IPv4 address, <<>> for any other.
To4(ip) ==
    IF Len(ip) = 4 THEN ip
    ELSE IF Len(ip) = 16 /\ SubSeq(ip, 1, 12) = V4InV6(<<>>) THEN SubSeq(ip, 13, 16)
    ELSE <<>>

\* (net.IP).Equal: an IPv4 address equals its 16-octet form.
IPEqual(a, b) ==
    IF To4(a) # <<>> \/ To4(b) # <<>> THEN To4(a) = To4(b) ELSE a = b

\* ------------------------------------------------------------------------
\* net/url (line 305): url.Parse and (*url.URL).String.

\* The greatest index at which s holds octet c, or 0.
LastIndex(s, c) ==
    LET at == {i \in 1..Len(s) : s[i] = c}
    IN IF at = {} THEN 0 ELSE CHOOSE i \in at : \A j \in at : j <= i

\* The least index at which sub stands in s, or 0.
IndexSub(s, sub) ==
    LET at == {i \in 1..(Len(s) - Len(sub) + 1) : SubSeq(s, i, i + Len(sub) - 1) = sub}
    IN IF at = {} THEN 0 ELSE CHOOSE i \in at : \A j \in at : i <= j

HasPrefix(s, pre) == Len(s) >= Len(pre) /\ SubSeq(s, 1, Len(pre)) = pre

Count(s, c) == Cardinality({i \in 1..Len(s) : s[i] = c})

\* The zero url.URL.  User is <<>> (nil) or one Userinfo.
ZeroURL ==
    [Scheme |-> <<>>, Opaque |-> <<>>, User |-> <<>>, Host |-> <<>>,
     Path |-> <<>>, RawPath |-> <<>>, OmitHost |-> FALSE, ForceQuery |-> FALSE,
     RawQuery |-> <<>>, Fragment |-> <<>>, RawFragment |-> <<>>]

\* shouldEscape, for the modes "host", "zone", "path", "userpassword" and
\* "fragment".
ShouldEscape(c, mode) ==
    IF IsLetter(c) \/ IsDigit(c) THEN FALSE
    ELSE IF mode \in {"host", "zone"}
            /\ c \in {33, 36, 38, 39, 40, 41, 42, 43, 44, 59, 61, 58, 91, 93, 60, 62, 34}
    THEN FALSE
    ELSE IF c \in {45, 95, 46, 126} THEN FALSE
    ELSE IF c \in {36, 38, 43, 44, 47, 58, 59, 61, 63, 64} /\ mode = "path"
    THEN c = 63
    ELSE IF c \in {36, 38, 43, 44, 47, 58, 59, 61, 63, 64} /\ mode = "userpassword"
    THEN c \in {64, 47, 63, 58}
    ELSE IF c \in {36, 38, 43, 44, 47, 58, 59, 61, 63, 64} /\ mode = "fragment"
    THEN FALSE
    ELSE IF mode = "fragment" /\ c \in {33, 40, 41, 42} THEN FALSE
    ELSE TRUE

\* The octet a %XY at place i writes.
EscapedOctet(s, i) == HexValue(s[i + 1]) * 16 + HexValue(s[i + 2])

\* unescape's check: every '%' begins a %XY; in a host a %XY writes an octet
\* of 128 or more (or is %25), in a zone one a host may hold (or a space, or
\* is %25), and a host or zone holds raw no ASCII octet that needs escaping.
UnescapeOk(s, mode) ==
    \A i \in 1..Len(s) :
        IF s[i] = 37
        THEN /\ i + 2 <= Len(s) /\ IsHexDigit(s[i + 1]) /\ IsHexDigit(s[i + 2])
             /\ mode = "host" =>
                   (HexValue(s[i + 1]) >= 8 \/ SubSeq(s, i, i + 2) = <<37, 50, 53>>)
             /\ mode = "zone" =>
                   \/ SubSeq(s, i, i + 2) = <<37, 50, 53>>
                   \/ EscapedOctet(s, i) = 32
                   \/ ~ShouldEscape(EscapedOctet(s, i), "host")
        ELSE ~(mode \in {"host", "zone"} /\ s[i] < 128 /\ ShouldEscape(s[i], "host"))

\* unescape's output for the text from place i on, once UnescapeOk has
\* passed it: an octet for each place that is not one of the two hex
\* digits of a %XY, the written octet for a '%'.
Unescaped(s, i) ==
    LET at == SelectSeq([j \in 1..Len(s) |-> j],
                        LAMBDA j : /\ j >= i
                                   /\ ~(j - 1 >= i /\ s[j - 1] = 37)
                                   /\ ~(j - 2 >= i /\ s[j - 2] = 37))
    IN [k \in 1..Len(at) |->
           IF s[at[k]] = 37 THEN EscapedOctet(s, at[k]) ELSE s[at[k]]]

Unescape(s, mode) ==
    IF UnescapeOk(s, mode) THEN [ok |-> TRUE, val |-> Unescaped(s, 1)]
    ELSE [ok |-> FALSE, val |-> <<>>]

UpperHexDigit(n) == IF n < 10 THEN 48 + n ELSE 55 + n

\* escape: %XY, in upper-case hex, for every octet shouldEscape names.
Escape(s, mode) ==
    Flatten([i \in 1..Len(s) |->
                IF ShouldEscape(s[i], mode)
                THEN <<37, UpperHexDigit(s[i] \div 16), UpperHexDigit(s[i] % 16)>>
                ELSE <<s[i]>>])

ValidEncoded(s, mode) ==
    \A i \in 1..Len(s) :
        \/ s[i] \in {33, 36, 38, 39, 40, 41, 42, 43, 44, 59, 61, 58, 64, 91, 93, 37}
        \/ ~ShouldEscape(s[i], mode)

\* getScheme: <<1, i>> a scheme ends before the colon at i, <<0, 0>> no
\* scheme, <<-1, 0>> "missing protocol scheme".
GetScheme(s, i) ==
    LET stop == Least({j \in i..Len(s) :
                          ~(IsLetter(s[j]) \/ IsDigit(s[j]) \/ s[j] \in {43, 45, 46})},
                      Len(s) + 1)
    IN IF i > Len(s) THEN <<0, 0>>
       ELSE IF i = 1 /\ (IsDigit(s[1]) \/ s[1] \in {43, 45, 46}) THEN <<0, 0>>
       ELSE IF stop > Len(s) THEN <<0, 0>>
       ELSE IF s[stop] # 58 THEN <<0, 0>>
       ELSE IF stop = 1 THEN <<-1, 0>> ELSE <<1, stop>>

\* validOptionalPort: nothing, or a colon and digits.
ValidOptionalPort(port) ==
    port = <<>> \/ (port[1] = 58 /\ \A i \in 2..Len(port) : IsDigit(port[i]))

\* parseHost of a bracketed literal whose ']' stands at place close: after
\* it at most a port; its zone, from "%25" at place zone on, is unescaped
\* as a zone.
ParseBracketHost(host, close, zone) ==
    IF close = 0 THEN [ok |-> FALSE, val |-> <<>>]
    ELSE IF ~ValidOptionalPort(Drop(host, close + 1)) THEN [ok |-> FALSE, val |-> <<>>]
    ELSE IF zone = 0 THEN Unescape(host, "host")
    ELSE IF /\ UnescapeOk(SubSeq(host, 1, zone - 1), "host")
            /\ UnescapeOk(SubSeq(host, zone, close - 1), "zone")
            /\ UnescapeOk(Drop(host, close), "host")
    THEN [ok |-> TRUE,
          val |-> Unescaped(SubSeq(host, 1, zone - 1), 1)
                  \o Unescaped(SubSeq(host, zone, close - 1), 1)
                  \o Unescaped(Drop(host, close), 1)]
    ELSE [ok |-> FALSE, val |-> <<>>]

\* parseHost: a bracketed literal, or a host that may end in a port after
\* its last colon.
ParseHost(host) ==
    IF HasPrefix(host, <<91>>)
    THEN ParseBracketHost(host, LastIndex(host, 93),
                          IndexSub(SubSeq(host, 1, LastIndex(host, 93) - 1),
                                   <<37, 50, 53>>))
    ELSE IF LastIndex(host, 58) > 0
            /\ ~ValidOptionalPort(Drop(host, LastIndex(host, 58)))
    THEN [ok |-> FALSE, val |-> <<>>]
    ELSE Unescape(host, "host")

ValidUserinfo(s) ==
    \A i \in 1..Len(s) :
        \/ IsLetter(s[i]) \/ IsDigit(s[i])
        \/ s[i] \in {45, 46, 95, 58, 126, 33, 36, 38, 39, 40, 41, 42, 43, 44, 59, 61, 37, 64}

\* parseAuthority's user and password: the text before the last '@', cut
\* at its first colon (place colon), each part unescaped.
ParseUserinfo(userinfo, colon, h) ==
    IF ~ValidUserinfo(userinfo) THEN [ok |-> FALSE, User |-> <<>>, Host |-> <<>>]
    ELSE IF \/ ~UnescapeOk(SubSeq(userinfo, 1, colon - 1), "userpassword")
            \/ ~UnescapeOk(Drop(userinfo, colon + 1), "userpassword")
    THEN [ok |-> FALSE, User |-> <<>>, Host |-> <<>>]
    ELSE [ok |-> TRUE,
          User |-> <<[Username |-> Unescaped(SubSeq(userinfo, 1, colon - 1), 1),
                      Password |-> Unescaped(Drop(userinfo, colon + 1), 1),
                      PasswordSet |-> colon <= Len(userinfo)]>>,
          Host |-> h.val]

\* parseAuthority, the host h parsed: no '@' (at = 0), or a user before it.
AuthorityOf(authority, at, h) ==
    IF ~h.ok THEN [ok |-> FALSE, User |-> <<>>, Host |-> <<>>]
    ELSE IF at = 0 THEN [ok |-> TRUE, User |-> <<>>, Host |-> h.val]
    ELSE ParseUserinfo(SubSeq(authority, 1, at - 1),
                       IndexFrom(SubSeq(authority, 1, at - 1), 58, 1), h)

\* parseAuthority: the host after the last '@', the user and password
\* before it.
ParseAuthority(authority) ==
    AuthorityOf(authority, LastIndex(authority, 64),
                ParseHost(Drop(authority, LastIndex(authority, 64) + 1)))

\* (*URL).setPath, the path unescaped: RawPath keeps the text only when the
\* default escaping of the path differs from it.
SetPath(url, pathText, path) ==
    IF ~path.ok THEN [ok |-> FALSE, val |-> ZeroURL]
    ELSE [ok |-> TRUE,
          val |-> [url EXCEPT !.Path = path.val,
                              !.RawPath = IF Escape(path.val, "path") = pathText
                                          THEN <<>> ELSE pathText]]

\* parse, the authority a read: its user and host, then the path.
SetAuthority(url, a, pathText) ==
    IF ~a.ok THEN [ok |-> FALSE, val |-> ZeroURL]
    ELSE SetPath([url EXCEPT !.User = a.User, !.Host = a.Host],
                 pathText, Unescape(pathText, "path"))

\* parse, after "//": the authority up to the next '/' (place slash), the
\* path from there.
ParseAfterSlashes(url, afterSlashes, slash) ==
    SetAuthority(url, ParseAuthority(SubSeq(afterSlashes, 1, slash - 1)),
                 Drop(afterSlashes, slash))

\* parse, scheme and query cut off: an opaque URL when a scheme stands
\* before a rootless rest; no colon in the first segment of a rootless
\* path; an authority after "//" (with no scheme, not after "///").
ParseRest(url, rest) ==
    IF ~HasPrefix(rest, <<47>>) /\ url.Scheme # <<>>
    THEN [ok |-> TRUE, val |-> [url EXCEPT !.Opaque = rest]]
    ELSE IF /\ ~HasPrefix(rest, <<47>>)
            /\ IndexFrom(rest, 58, 1) < IndexFrom(rest, 47, 1)
    THEN [ok |-> FALSE, val |-> ZeroURL]
    ELSE IF /\ url.Scheme # <<>> \/ ~HasPrefix(rest, <<47, 47, 47>>)
            /\ HasPrefix(rest, <<47, 47>>)
    THEN ParseAfterSlashes(url, Drop(rest, 3), IndexFrom(Drop(rest, 3), 47, 1))
    ELSE SetPath([url EXCEPT !.OmitHost = url.Scheme # <<>> /\ HasPrefix(rest, <<47>>)],
                 rest, Unescape(rest, "path"))

\* A lone final '?' forces an empty query.
ForcesQuery(afterScheme) ==
    /\ afterScheme # <<>>
    /\ afterScheme[Len(afterScheme)] = 63
    /\ Count(afterScheme, 63) = 1

\* parse, the scheme cut off: a lone final '?' is dropped, else the query
\* is the text after the first '?' (place question).
ParseQuery(scheme, afterScheme, question) ==
    ParseRest([ZeroURL EXCEPT
                  !.Scheme = scheme,
                  !.ForceQuery = ForcesQuery(afterScheme),
                  !.RawQuery = IF ForcesQuery(afterScheme) THEN <<>>
                               ELSE Drop(afterScheme, question + 1)],
              SubSeq(afterScheme, 1, question - 1))

\* parse, getScheme's answer g in hand and the text after the scheme cut
\* off.
ParseAfterScheme(rawURL, g, afterScheme) ==
    IF g[1] = -1 THEN [ok |-> FALSE, val |-> ZeroURL]
    ELSE ParseQuery(IF g[1] = 1 THEN ToLower(SubSeq(rawURL, 1, g[2] - 1)) ELSE <<>>,
                    afterScheme, IndexFrom(afterScheme, 63, 1))

\* parse, getScheme's answer g in hand.
ParseScheme(rawURL, g) ==
    ParseAfterScheme(rawURL, g, IF g[1] = 1 THEN Drop(rawURL, g[2] + 1) ELSE rawURL)

\* parse(rawURL, false): the text before any '#'.
UrlParseNoFragment(rawURL) ==
    IF \E i \in 1..Len(rawURL) : rawURL[i] < 32 \/ rawURL[i] = 127
    THEN [ok |-> FALSE, val |-> ZeroURL]
    ELSE IF rawURL = <<42>> THEN [ok |-> TRUE, val |-> [ZeroURL EXCEPT !.Path = <<42>>]]
    ELSE ParseScheme(rawURL, GetScheme(rawURL, 1))

\* (*URL).setFragment, the fragment unescaped.
SetFragment(url, frag, f) ==
    IF ~url.ok THEN url
    ELSE IF frag = <<>> THEN url
    ELSE IF ~f.ok THEN [ok |-> FALSE, val |-> ZeroURL]
    ELSE [ok |-> TRUE,
          val |-> [url.val EXCEPT
                      !.Fragment = f.val,
                      !.RawFragment = IF Escape(f.val, "fragment") = frag
                                      THEN <<>> ELSE frag]]

\* Parse, the first '#' at place hash.
ParseAtHash(rawURL, hash) ==
    SetFragment(UrlParseNoFragment(SubSeq(rawURL, 1, hash - 1)),
                Drop(rawURL, hash + 1),
                Unescape(Drop(rawURL, hash + 1), "fragment"))

\* url.Parse: the fragment cut off at the first '#', the rest parsed, the
\* fragment unescaped.
UrlParse(rawURL) == ParseAtHash(rawURL, IndexFrom(rawURL, 35, 1))

\* A raw path or fragment is kept when it is a valid encoding of the value.
KeepsRaw(rawText, raw, value, mode) ==
    rawText # <<>> /\ ValidEncoded(rawText, mode) /\ raw.ok /\ raw.val = value

\* (*url.URL).EscapedPath and EscapedFragment: the raw text when it is a
\* valid encoding of the value, the default escaping otherwise.
EscapedPath(u) ==
    IF KeepsRaw(u.RawPath, Unescape(u.RawPath, "path"), u.Path, "path")
    THEN u.RawPath
    ELSE IF u.Path = <<42>> THEN <<42>>
    ELSE Escape(u.Path, "path")

EscapedFragment(u) ==
    IF KeepsRaw(u.RawFragment, Unescape(u.RawFragment, "fragment"),
                u.Fragment, "fragment")
    THEN u.RawFragment
    ELSE Escape(u.Fragment, "fragment")

\* (*url.Userinfo).String
UserString(user) ==
    Escape(user.Username, "userpassword")
    \o (IF user.PasswordSet
        THEN <<58>> \o Escape(user.Password, "userpassword") ELSE <<>>)

\* The "//", user and host that String writes, when it writes any.
AuthorityString(u) ==
    IF (u.Scheme # <<>> \/ u.Host # <<>> \/ u.User # <<>>)
       /\ ~(u.OmitHost /\ u.Host = <<>> /\ u.User = <<>>)
    THEN (IF u.Host # <<>> \/ u.Path # <<>> \/ u.User # <<>>
          THEN <<47, 47>> ELSE <<>>)
         \o (IF u.User # <<>> THEN UserString(u.User[1]) \o <<64>> ELSE <<>>)
         \o (IF u.Host # <<>> THEN Escape(u.Host, "host") ELSE <<>>)
    ELSE <<>>

\* String's path: a '/' before a rootless path after a host, "./" before a
\* first segment with a colon when nothing stands before the path.
PathString(u, before, path) ==
    (IF path # <<>> /\ path[1] # 47 /\ u.Host # <<>> THEN <<47>>
     ELSE IF before = <<>> /\ IndexFrom(path, 58, 1) < IndexFrom(path, 47, 1)
     THEN <<46, 47>> ELSE <<>>)
    \o path

\* String, the scheme and authority written.
StringAfter(u, scheme, authority) ==
    scheme
    \o (IF u.Opaque # <<>> THEN u.Opaque
        ELSE authority \o PathString(u, scheme \o authority, EscapedPath(u)))
    \o (IF u.ForceQuery \/ u.RawQuery # <<>> THEN <<63>> \o u.RawQuery ELSE <<>>)
    \o (IF u.Fragment # <<>> THEN <<35>> \o EscapedFragment(u) ELSE <<>>)

\* (*url.URL).String
UrlString(u) ==
    StringAfter(u, IF u.Scheme # <<>> THEN u.Scheme \o <<58>> ELSE <<>>,
                AuthorityString(u))

\* ------------------------------------------------------------------------
\* Name (lines 19-68) and crypto/x509/pkix.Name.

\* Name.pkix: every one of the four list attributes gets exactly one value,
\* the field as it is, empty or not.
pkix(n) ==
    [Country |-> <<n.Country>>,
     Organization |-> <<n.Organization>>,
     Locality |-> <<n.City>>,
     Province |-> <<n.Province>>,
     CommonName |-> n.CommonName]

nameFromPkix(p) ==
    [CommonName |-> p.CommonName,
     Organization |-> IF Len(p.Organization) > 0 THEN p.Organization[1] ELSE <<>>,
     City |-> IF Len(p.Locality) > 0 THEN p.Locality[1] ELSE <<>>,
     Province |-> IF Len(p.Province) > 0 THEN p.Province[1] ELSE <<>>,
     Country |-> IF Len(p.Country) > 0 THEN p.Country[1] ELSE <<>>]

\* The zero pkix.Name.
NoName ==
    [Country |-> <<>>, Organization |-> <<>>, Locality |-> <<>>,
     Province |-> <<>>, CommonName |-> <<>>]

\* ------------------------------------------------------------------------
\* KeyUsage (lines 98-175).

\* KeyUsage.usage: the x509.KeyUsage bit mask.
usage(u) ==
    (IF u.DigitalSignature THEN 1 ELSE 0)
    + (IF u.ContentCommitment THEN 2 ELSE 0)
    + (IF u.KeyEncipherment THEN 4 ELSE 0)
    + (IF u.DataEncipherment THEN 8 ELSE 0)
    + (IF u.KeyAgreement THEN 16 ELSE 0)
    + (IF u.CertSign THEN 32 ELSE 0)
    + (IF u.CRLSign THEN 64 ELSE 0)
    + (IF u.EncipherOnly THEN 128 ELSE 0)
    + (IF u.DecipherOnly THEN 256 ELSE 0)

\* KeyUsage.extendedUsage: the x509.ExtKeyUsage values (ServerAuth 1,
\* ClientAuth 2, CodeSigning 3, EmailProtection 4, TimeStamping 8,
\* OCSPSigning 9), one per true flag, in this order.
extendedUsage(u) ==
    (IF u.ServerAuth THEN <<1>> ELSE <<>>)
    \o (IF u.ClientAuth THEN <<2>> ELSE <<>>)
    \o (IF u.CodeSigning THEN <<3>> ELSE <<>>)
    \o (IF u.EmailProtection THEN <<4>> ELSE <<>>)
    \o (IF u.TimeStamping THEN <<8>> ELSE <<>>)
    \o (IF u.OCSPSigning THEN <<9>> ELSE <<>>)

\* ------------------------------------------------------------------------
\* The encoding of certificates and keys (crypto/x509 behind lines 256,
\* 261, 227, 237, 327 and 332): fields and tagged items, each with its DER
\* length, inside a SEQUENCE.

\* A natural number in big-endian octets, one at least.
RECURSIVE NatOctets(_)
NatOctets(n) == IF n < 256 THEN <<n>> ELSE Append(NatOctets(n \div 256), n % 256)

\* The number that big-endian octets write.
RECURSIVE OctetsNat(_)
OctetsNat(b) ==
    IF b = <<>> THEN 0
    ELSE OctetsNat(SubSeq(b, 1, Len(b) - 1)) * 256 + b[Len(b)]

\* A DER length: one octet below 128 (short form), else 128 plus the count
\* of the length's octets, then those octets (long form).
Length(n) == IF n < 128 THEN <<n>> ELSE <<128 + Len(NatOctets(n))>> \o NatOctets(n)

\* The long-form length of count octets after place p: at most four
\* octets, none cut off, no leading zero, and no value the short form
\* writes.
ReadLongLength(b, p, count) ==
    IF count = 0 \/ count > 4 \/ p + count > Len(b)
    THEN [ok |-> FALSE, len |-> 0, at |-> 0]
    ELSE IF b[p + 1] = 0 \/ OctetsNat(SubSeq(b, p + 1, p + count)) < 128
    THEN [ok |-> FALSE, len |-> 0, at |-> 0]
    ELSE [ok |-> TRUE, len |-> OctetsNat(SubSeq(b, p + 1, p + count)),
          at |-> p + count + 1]

\* The DER length at place p of b: its value len and the place at of the
\* first octet after it.
ReadLength(b, p) ==
    IF p > Len(b) THEN [ok |-> FALSE, len |-> 0, at |-> 0]
    ELSE IF b[p] < 128 THEN [ok |-> TRUE, len |-> b[p], at |-> p + 1]
    ELSE ReadLongLength(b, p, b[p] - 128)

Field(b) == Length(Len(b)) \o b

\* The fields of b, or not ok when a length is malformed or runs past the
\* end.
RECURSIVE ParseFields(_)
ParseFields(b) ==
    IF b = <<>> THEN [ok |-> TRUE, val |-> <<>>]
    ELSE LET l == ReadLength(b, 1)
             rest == ParseFields(Drop(b, l.at + l.len))
         IN IF ~l.ok THEN [ok |-> FALSE, val |-> <<>>]
            ELSE IF l.at + l.len - 1 > Len(b) THEN [ok |-> FALSE, val |-> <<>>]
            ELSE IF rest.ok
            THEN [ok |-> TRUE,
                  val |-> <<SubSeq(b, l.at, l.at + l.len - 1)>> \o rest.val]
            ELSE rest

Item(tag, v) == <<tag>> \o Length(Len(v)) \o v

Items(tag, vs) == Flatten([i \in 1..Len(vs) |-> Item(tag, vs[i])])

\* The <<tag, value>> items of b, or not ok when one is malformed or cut
\* short.
RECURSIVE ParseItems(_)
ParseItems(b) ==
    IF b = <<>> THEN [ok |-> TRUE, val |-> <<>>]
    ELSE LET l == ReadLength(b, 2)
             rest == ParseItems(Drop(b, l.at + l.len))
         IN IF ~l.ok THEN [ok |-> FALSE, val |-> <<>>]
            ELSE IF l.at + l.len - 1 > Len(b) THEN [ok |-> FALSE, val |-> <<>>]
            ELSE IF rest.ok
            THEN [ok |-> TRUE,
                  val |-> <<<<b[1], SubSeq(b, l.at, l.at + l.len - 1)>>>> \o rest.val]
            ELSE rest

\* The values of the items that carry the tag, in their order.
Tagged(items, tag) ==
    LET sel == SelectSeq(items, LAMBDA it : it[1] = tag)
    IN [i \in 1..Len(sel) |-> sel[i][2]]

\* A SEQUENCE: its tag, its length, the content.
Sequence(body) == <<48>> \o Length(Len(body)) \o body

\* The content of a SEQUENCE: it ends where der ends.
ParseSequence(der) ==
    LET l == ReadLength(der, 2)
    IN IF Len(der) >= 2 /\ der[1] = 48 /\ l.ok /\ l.at + l.len - 1 = Len(der)
       THEN [ok |-> TRUE, val |-> Drop(der, l.at)]
       ELSE [ok |-> FALSE, val |-> <<>>]

\* pkix.Name.ToRDNSequence: an attribute with no value is left out, one
\* with values gives an item per value (attribute types by the last arc of
\* their object identifier); the common name is left out when empty.
MarshalName(p) ==
    Items(6, p.Country) \o Items(10, p.Organization) \o Items(7, p.Locality)
    \o Items(8, p.Province)
    \o (IF Len(p.CommonName) > 0 THEN Item(3, p.CommonName) ELSE <<>>)

\* pkix.Name.FillFromRDNSequence
ParseName(b) ==
    LET r == ParseItems(b)
        cn == Tagged(r.val, 3)
    IN IF ~r.ok THEN [ok |-> FALSE, val |-> NoName]
       ELSE [ok |-> TRUE,
             val |-> [Country |-> Tagged(r.val, 6),
                      Organization |-> Tagged(r.val, 10),
                      Locality |-> Tagged(r.val, 7),
                      Province |-> Tagged(r.val, 8),
                      CommonName |-> IF cn = <<>> THEN <<>> ELSE cn[Len(cn)]]]

\* An INTEGER: a zero octet leads when the first octet's high bit is set.
MarshalInteger(m) ==
    IF m = <<>> THEN <<0>> ELSE IF m[1] >= 128 THEN <<0>> \o m ELSE m

\* The INTEGER read back: its content is not empty, is minimal (no zero
\* octet leads an octet below 128) and is not negative.
ParseInteger(b) ==
    IF b = <<>> \/ b[1] >= 128 THEN [ok |-> FALSE, val |-> <<>>]
    ELSE IF Len(b) > 1 /\ b[1] = 0 /\ b[2] < 128 THEN [ok |-> FALSE, val |-> <<>>]
    ELSE [ok |-> TRUE, val |-> SetBytes(b)]

\* A digest: two octets of a position-weighted checksum stand for the hash.
RECURSIVE Checksum(_, _, _)
Checksum(b, lo, hi) ==
    IF lo > hi THEN 0
    ELSE IF lo = hi THEN ((lo + 1) * (b[lo] + 1)) % 65521
    ELSE LET mid == (lo + hi) \div 2
         IN (Checksum(b, lo, mid) + Checksum(b, mid + 1, hi)) % 65521

Digest(b) == LET c == Checksum(b, 1, Len(b)) IN <<c \div 256, c % 256>>

\* ------------------------------------------------------------------------
\* Keys.  A P-256 private key is its scalar d; the public key is PublicOf(d),
\* one octet that is never 0 (0 stands for no public key).

PublicOf(d) == 1 + ((29 * d) % 251)

\* x509.MarshalPKCS8PrivateKey (line 256): version 0, the curve, the scalar.
MarshalPKCS8PrivateKey(d) == Sequence(<<0, 7>> \o NatOctets(d))

\* x509.ParsePKCS8PrivateKey (line 237): asn1.Unmarshal reads the SEQUENCE
\* at the head of der and hands back what follows it, which is not looked
\* at; the content is the version 0, the curve and at least one octet of
\* the scalar.
ParsePKCS8PrivateKey(der) ==
    LET l == ReadLength(der, 2)
    IN IF /\ Len(der) >= 2 /\ der[1] = 48 /\ l.ok
          /\ l.at + l.len - 1 <= Len(der)
          /\ l.len >= 3 /\ der[l.at] = 0 /\ der[l.at + 1] = 7
       THEN [ok |-> TRUE, val |-> OctetsNat(SubSeq(der, l.at + 2, l.at + l.len - 1))]
       ELSE [ok |-> FALSE, val |-> 0]

\* x509.MarshalPKIXPublicKey (line 261)
MarshalPKIXPublicKey(pub) == Sequence(<<7, pub>>)

\* sha1.Sum (line 265)
Sha1Sum(b) == Digest(b)

\* An ECDSA signature of tbs: only the holder of d makes it, and it checks
\* against PublicOf(d) alone.
Sign(d, tbs) == <<PublicOf(d)>> \o Digest(tbs)

\* ------------------------------------------------------------------------
\* x509.Certificate, x509.CreateCertificate and x509.ParseCertificate.

\* The zero x509.Certificate.
ZeroX509 ==
    [SerialNumber |-> <<>>, Issuer |-> NoName, Subject |-> NoName,
     NotBefore |-> 0, NotAfter |-> 0, KeyUsage |-> 0,
     BasicConstraintsValid |-> FALSE, IsCA |-> FALSE, SubjectKeyId |-> <<>>,
     ExtKeyUsage |-> <<>>, DNSNames |-> <<>>, EmailAddresses |-> <<>>,
     IPAddresses |-> <<>>, URIs |-> <<>>, CRLDistributionPoints |-> <<>>,
     OCSPServer |-> <<>>, PublicKey |-> 0, Signature |-> <<>>,
     RawTBSCertificate |-> <<>>]

\* The subject-alternative-name extension: DNS names, e-mail addresses, IP
\* addresses (four octets when To4 gives them) and URIs (their String), by
\* GeneralName tag.
MarshalSANs(dns, email, ips, uris) ==
    Items(2, dns) \o Items(1, email)
    \o Items(7, [i \in 1..Len(ips) |-> IF To4(ips[i]) # <<>> THEN To4(ips[i]) ELSE ips[i]])
    \o Items(6, [i \in 1..Len(uris) |-> UrlString(uris[i])])

\* The to-be-signed part: the serial, the parent's subject as issuer, the
\* validity, the template's subject, the public key and the extensions.
TBSCertificate(template, parent, pub) ==
    Flatten(<<
        Field(MarshalInteger(template.SerialNumber)),
        Field(MarshalName(parent.Subject)),
        Field(Field(NatOctets(template.NotBefore))
              \o Field(NatOctets(template.NotAfter))),
        Field(MarshalName(template.Subject)),
        Field(MarshalPKIXPublicKey(pub)),
        Field(<<template.KeyUsage \div 256, template.KeyUsage % 256>>),
        Field(IF template.BasicConstraintsValid
              THEN <<IF template.IsCA THEN 255 ELSE 0>> ELSE <<>>),
        Field(template.SubjectKeyId),
        Field(template.ExtKeyUsage),
        Field(MarshalSANs(template.DNSNames, template.EmailAddresses,
                          template.IPAddresses, template.URIs)),
        Field(Items(6, template.CRLDistributionPoints)),
        Field(Items(6, template.OCSPServer))>>)

\* An IA5String holds octets below 128 only.
IsIA5String(s) == \A i \in 1..Len(s) : s[i] < 128

\* The octets of the UTF-8 encoding that starts at place i of s (no
\* overlong form, no surrogate, nothing above U+10FFFF), 0 when none does.
RuneLen(s, i) ==
    IF s[i] < 128 THEN 1
    ELSE IF s[i] \in 194..223
    THEN IF i + 1 <= Len(s) /\ s[i + 1] \in 128..191 THEN 2 ELSE 0
    ELSE IF s[i] \in 224..239
    THEN IF /\ i + 2 <= Len(s)
            /\ s[i + 1] \in 128..191 /\ s[i + 2] \in 128..191
            /\ s[i] = 224 => s[i + 1] >= 160
            /\ s[i] = 237 => s[i + 1] <= 159
         THEN 3 ELSE 0
    ELSE IF s[i] \in 240..244
    THEN IF /\ i + 3 <= Len(s)
            /\ s[i + 1] \in 128..191 /\ s[i + 2] \in 128..191
            /\ s[i + 3] \in 128..191
            /\ s[i] = 240 => s[i + 1] >= 144
            /\ s[i] = 244 => s[i + 1] <= 143
         THEN 4 ELSE 0
    ELSE 0

\* utf8.ValidString: every octet starts an encoding or continues the one
\* that starts up to three places before it.
ValidUtf8(s) ==
    \A i \in 1..Len(s) :
        IF s[i] \in 128..191
        THEN \E j \in 1..3 :
                i - j >= 1 /\ s[i - j] \notin 128..191 /\ RuneLen(s, i - j) > j
        ELSE RuneLen(s, i) > 0

\* The certificate: the to-be-signed part and its signature.
SignedCertificate(tbs, priv) == Sequence(tbs \o Field(Sign(priv, tbs)))

\* x509.CreateCertificate(rand, template, parent, pub, priv) (lines 327 and
\* 332): the DER of the template's certificate, issued in the name of
\* parent.Subject and signed with priv.  Its errors, in its order: a string
\* of the template's subject is not valid UTF-8; the parent has a public
\* key and it is not the one of priv; a DNS name, an e-mail address or a
\* URI's String is no IA5String.
CreateCertificate(template, parent, pub, priv) ==
    IF \/ \E i \in 1..Len(template.Subject.Country) :
             ~ValidUtf8(template.Subject.Country[i])
       \/ \E i \in 1..Len(template.Subject.Organization) :
             ~ValidUtf8(template.Subject.Organization[i])
       \/ \E i \in 1..Len(template.Subject.Locality) :
             ~ValidUtf8(template.Subject.Locality[i])
       \/ \E i \in 1..Len(template.Subject.Province) :
             ~ValidUtf8(template.Subject.Province[i])
       \/ ~ValidUtf8(template.Subject.CommonName)
    THEN [err |-> <<"asn1: string not valid UTF-8">>, val |-> <<>>]
    ELSE IF parent.PublicKey # 0 /\ PublicOf(priv) # parent.PublicKey
    THEN [err |-> <<"x509: provided PrivateKey doesn't match parent's PublicKey">>,
          val |-> <<>>]
    ELSE IF \/ \E i \in 1..Len(template.DNSNames) : ~IsIA5String(template.DNSNames[i])
            \/ \E i \in 1..Len(template.EmailAddresses) :
                  ~IsIA5String(template.EmailAddresses[i])
            \/ \E i \in 1..Len(template.URIs) :
                  ~IsIA5String(UrlString(template.URIs[i]))
    THEN [err |-> <<"x509: cannot be encoded as an IA5String">>, val |-> <<>>]
    ELSE [err |-> <<>>, val |-> SignedCertificate(TBSCertificate(template, parent, pub), priv)]

\* domainToReverseLabels' verdict on the host of a URI: labels between
\* dots, none empty, of octets 33 to 126.
ValidDomain(domain) ==
    /\ domain # <<>>
    /\ domain[1] # 46
    /\ domain[Len(domain)] # 46
    /\ \A i \in 1..Len(domain) :
          /\ domain[i] >= 33 /\ domain[i] <= 126
          /\ i < Len(domain) => ~(domain[i] = 46 /\ domain[i + 1] = 46)

\* The certificate of the fields f and their parsed parts; uris holds
\* url.Parse's answer for every URI of the alternate names.
CertificateOf(f, serial, issuer, validity, subject, key, san, crl, ocsp, ips, uris) ==
    IF ~serial.ok \/ ~issuer.ok \/ ~subject.ok \/ ~key.ok
    THEN [ok |-> FALSE, val |-> ZeroX509]
    ELSE IF Len(key.val) # 2 \/ key.val[1] # 7 \/ key.val[2] = 0
    THEN [ok |-> FALSE, val |-> ZeroX509]
    ELSE IF ~validity.ok \/ Len(validity.val) # 2 THEN [ok |-> FALSE, val |-> ZeroX509]
    ELSE IF validity.val[1] = <<>> \/ validity.val[2] = <<>>
    THEN [ok |-> FALSE, val |-> ZeroX509]
    ELSE IF Len(f[6]) # 2 \/ Len(f[7]) > 1 \/ Len(f[13]) # 3
    THEN [ok |-> FALSE, val |-> ZeroX509]
    ELSE IF ~san.ok \/ ~crl.ok \/ ~ocsp.ok THEN [ok |-> FALSE, val |-> ZeroX509]
    ELSE IF \E i \in 1..Len(ips) : Len(ips[i]) \notin {4, 16}
    THEN [ok |-> FALSE, val |-> ZeroX509]
    ELSE IF \E i \in 1..Len(san.val) :
               san.val[i][1] \in {1, 2, 6} /\ ~IsIA5String(san.val[i][2])
    THEN [ok |-> FALSE, val |-> ZeroX509]
    ELSE IF \E i \in 1..Len(uris) : ~uris[i].ok THEN [ok |-> FALSE, val |-> ZeroX509]
    ELSE IF \E i \in 1..Len(uris) :
               uris[i].val.Host # <<>> /\ ~ValidDomain(uris[i].val.Host)
    THEN [ok |-> FALSE, val |-> ZeroX509]
    ELSE [ok |-> TRUE,
          val |-> [SerialNumber |-> serial.val,
                   Issuer |-> issuer.val,
                   Subject |-> subject.val,
                   NotBefore |-> OctetsNat(validity.val[1]),
                   NotAfter |-> OctetsNat(validity.val[2]),
                   KeyUsage |-> f[6][1] * 256 + f[6][2],
                   BasicConstraintsValid |-> Len(f[7]) = 1,
                   IsCA |-> Len(f[7]) = 1 /\ f[7][1] # 0,
                   SubjectKeyId |-> f[8],
                   ExtKeyUsage |-> f[9],
                   DNSNames |-> Tagged(san.val, 2),
                   EmailAddresses |-> Tagged(san.val, 1),
                   IPAddresses |-> ips,
                   URIs |-> [i \in 1..Len(uris) |-> uris[i].val],
                   CRLDistributionPoints |-> Tagged(crl.val, 6),
                   OCSPServer |-> Tagged(ocsp.val, 6),
                   PublicKey |-> key.val[2],
                   Signature |-> f[13],
                   RawTBSCertificate |->
                       Flatten([i \in 1..12 |-> Field(f[i])])]]

\* The alternate names san read: the IP addresses, and every URI parsed.
CertificateNames(f, serial, issuer, validity, subject, key, san, crl, ocsp) ==
    CertificateOf(f, serial, issuer, validity, subject, key, san, crl, ocsp,
                  Tagged(san.val, 7),
                  [i \in 1..Len(Tagged(san.val, 6)) |-> UrlParse(Tagged(san.val, 6)[i])])

\* The thirteen fields fs of a certificate, each parsed.
CertificateFields(fs) ==
    IF ~fs.ok THEN [ok |-> FALSE, val |-> ZeroX509]
    ELSE IF Len(fs.val) # 13 THEN [ok |-> FALSE, val |-> ZeroX509]
    ELSE CertificateNames(fs.val, ParseInteger(fs.val[1]), ParseName(fs.val[2]),
                          ParseFields(fs.val[3]),
                          ParseName(fs.val[4]), ParseSequence(fs.val[5]),
                          ParseItems(fs.val[10]), ParseItems(fs.val[11]),
                          ParseItems(fs.val[12]))

\* The outer sequence s of a certificate.
CertificateSequence(s) ==
    IF ~s.ok THEN [ok |-> FALSE, val |-> ZeroX509]
    ELSE CertificateFields(ParseFields(s.val))

\* x509.ParseCertificate (line 227)
ParseCertificate(der) == CertificateSequence(ParseSequence(der))

\* (*x509.Certificate).CheckSignature against a public key.
CheckSignature(x, pub) == x.Signature = <<pub>> \o Digest(x.RawTBSCertificate)

\* ------------------------------------------------------------------------
\* Certificate (lines 193-242).  An accessor that panics gives panic = TRUE.

\* The zero Certificate.
ZeroCertificate ==
    [Serial |-> <<>>, Subject |-> nameFromPkix(NoName),
     CertificateAuthority |-> FALSE, CertificateData |-> <<>>, KeyData |-> <<>>]

certificateDataBytes(c) ==
    LET r == DecodeString(c.CertificateData)
    IN [panic |-> ~r.ok, val |-> r.val]

keyDataBytes(c) ==
    LET r == DecodeString(c.KeyData)
    IN [panic |-> ~r.ok, val |-> r.val]

\* x509 (lines 226-232), the parser's answer x in hand.
x509OfParsed(x) ==
    IF ~x.ok THEN [panic |-> TRUE, val |-> ZeroX509]
    ELSE [panic |-> FALSE, val |-> x.val]

\* x509, the decoded octets b in hand.
x509OfBytes(b) ==
    IF b.panic THEN [panic |-> TRUE, val |-> ZeroX509]
    ELSE x509OfParsed(ParseCertificate(b.val))

x509(c) == x509OfBytes(certificateDataBytes(c))

\* pKey (lines 236-242), the parser's answer k in hand.
pKeyOfParsed(k) ==
    IF ~k.ok THEN [panic |-> TRUE, val |-> 0]
    ELSE [panic |-> FALSE, val |-> k.val]

\* pKey, the decoded octets b in hand.
pKeyOfBytes(b) ==
    IF b.panic THEN [panic |-> TRUE, val |-> 0]
    ELSE pKeyOfParsed(ParsePKCS8PrivateKey(b.val))

pKey(c) == pKeyOfBytes(keyDataBytes(c))

\* fmt.Sprintf("%v", n) of a Name: its fields in braces, a space between.
SprintName(n) ==
    <<123>> \o n.Organization \o <<32>> \o n.City \o <<32>> \o n.Province
    \o <<32>> \o n.Country \o <<32>> \o n.CommonName \o <<125>>

\* Description (lines 219-221), the decoded certificate x in hand.
DescriptionOf(x) ==
    IF x.panic THEN [panic |-> TRUE, val |-> <<>>]
    ELSE [panic |-> FALSE, val |-> SprintName(nameFromPkix(x.val.Subject))]

Description(c) == DescriptionOf(x509(c))

\* ------------------------------------------------------------------------
\* GenerateCertificate (lines 244-349).  A call is a frame: its position
\* (pc), its parameters and its local variables.  request is the caller's
\* CertificateRequest as the call leaves it; issuer is the *Certificate
\* parameter, 0 for nil and otherwise the place of the record in the
\* caller's storage; args keeps what the call was given (the request, the
\* issuer record, the two random draws).
\*
\* pc: "idle" no call, "issuer" before line 285, "names" in the loop of
\* lines 289-314 (i is the next entry) and up to the return of line 339,
\* "returned" after a return statement, "panicked" after a panic.

\* An alternate name's Type is compared with the four constants of lines
\* 81-90 and nothing else: it is kept as a string.
ZeroRequest ==
    [Subject |-> nameFromPkix(NoName),
     Validity |-> [NotBefore |-> 0, NotAfter |-> 0],
     AlternateNames |-> <<>>,
     Usage |-> [DigitalSignature |-> FALSE, ContentCommitment |-> FALSE,
                KeyEncipherment |-> FALSE, DataEncipherment |-> FALSE,
                KeyAgreement |-> FALSE, CertSign |-> FALSE, CRLSign |-> FALSE,
                EncipherOnly |-> FALSE, DecipherOnly |-> FALSE,
                ServerAuth |-> FALSE, ClientAuth |-> FALSE,
                CodeSigning |-> FALSE, EmailProtection |-> FALSE,
                TimeStamping |-> FALSE, OCSPSigning |-> FALSE],
     IsCertificateAuthority |-> FALSE,
     StatusProviders |-> [CRL |-> <<>>, OCSP |-> <<>>]]

IdleFrame ==
    [pc |-> "idle",
     args |-> [request |-> ZeroRequest, issuer |-> <<>>, d |-> 0, draw |-> <<>>],
     request |-> ZeroRequest, issuer |-> 0, key |-> 0, serial |-> <<>>,
     certificate |-> ZeroCertificate, tpl |-> ZeroX509, i |-> 0,
     result |-> <<>>, err |-> <<>>]

\* generateKey (lines 347-349): the random source's next P-256 scalar.
generateKey(d) == d

\* randomSerialNumber (lines 342-345): rand.Int below 1 << 128 reads 16
\* octets (draw), keeps all eight bits of the first and takes them as a
\* big-endian number, which is always below the limit.
randomSerialNumber(draw) == SetBytes(draw)

\* Lines 245-283: the key, the serial, the record and the template.
Begin(request, issuer, issuerRecord, d, draw) ==
    LET key == generateKey(d)
        pub == PublicOf(key)
        serial == randomSerialNumber(draw)
        pKeyBytes == MarshalPKCS8PrivateKey(key)
        publicKeyBytes == MarshalPKIXPublicKey(pub)
        h == Sha1Sum(publicKeyBytes)
    IN [pc |-> "issuer",
        args |-> [request |-> request, issuer |-> issuerRecord, d |-> d, draw |-> draw],
        request |-> request,
        issuer |-> issuer,
        key |-> key,
        serial |-> serial,
        certificate |->
            [Serial |-> BigString(serial),
             CertificateAuthority |-> issuer = 0,
             KeyData |-> EncodeToString(pKeyBytes),
             Subject |-> request.Subject,
             CertificateData |-> <<>>],
        tpl |->
            [ZeroX509 EXCEPT
                !.SerialNumber = serial,
                !.Subject = pkix(request.Subject),
                !.NotBefore = request.Validity.NotBefore,
                !.NotAfter = request.Validity.NotAfter,
                !.KeyUsage = usage(request.Usage),
                !.BasicConstraintsValid = TRUE,
                !.SubjectKeyId = h,
                !.ExtKeyUsage = <<>>],
        i |-> 1,
        result |-> <<>>,
        err |-> <<>>]

\* Line 286, the issuer's decoded certificate x in hand.
IssuerSubject(f, x) ==
    IF x.panic THEN [f EXCEPT !.pc = "panicked"]
    ELSE [f EXCEPT !.pc = "names", !.tpl.Issuer = x.val.Subject]

\* Lines 285-287: the issuer's subject, read from its decoded certificate.
IssuerStep(f, st) ==
    IF f.issuer = 0 THEN [f EXCEPT !.pc = "names"]
    ELSE IssuerSubject(f, x509(st[f.issuer]))

\* A loop that took each entry off the request's list, for comparison.
AdvancePopping(f) == [f EXCEPT !.request.AlternateNames = Tail(@)]

\* The loop of lines 289-314 goes on to the next entry; the request is
\* only read.
Advance(f) == [f EXCEPT !.i = f.i + 1]

\* return nil, err of lines 300 and 307.
Reject(f, e) == [f EXCEPT !.pc = "returned", !.result = <<>>, !.err = <<e>>]

\* Lines 298-302: ParseIP's answer ip in hand.
IPStep(f, ip) ==
    IF ~ip.ok THEN Reject(f, "invalid ip address")
    ELSE [Advance(f) EXCEPT !.tpl.IPAddresses = Append(f.tpl.IPAddresses, ip.val)]

\* Lines 305-309: url.Parse's answer u in hand.
URIStep(f, u) ==
    IF ~u.ok THEN Reject(f, "url.Parse")
    ELSE [Advance(f) EXCEPT !.tpl.URIs = Append(f.tpl.URIs, u.val)]

\* The switch of lines 290-313 on the entry name.
NameStep(f, name) ==
    IF name.Type = "dns"
    THEN [Advance(f) EXCEPT !.tpl.DNSNames = Append(f.tpl.DNSNames, name.Value)]
    ELSE IF name.Type = "email"
    THEN [Advance(f) EXCEPT
             !.tpl.EmailAddresses = Append(f.tpl.EmailAddresses, name.Value)]
    ELSE IF name.Type = "ip" THEN IPStep(f, ParseIP(name.Value))
    ELSE IF name.Type = "uri" THEN URIStep(f, UrlParse(name.Value))
    ELSE Advance(f)

\* One turn of the loop of lines 289-314, on entry i.
NamesStep(f) == NameStep(f, f.request.AlternateNames[f.i])

\* A call that always named its own template as the parent, for comparison.
ParentSelf(f, x) == f.tpl

\* The parent of lines 327 and 332: the call's own template without an
\* issuer, the issuer's decoded certificate with one.
Parent(f, x) == IF f.issuer = 0 THEN f.tpl ELSE x

\* The signing key of lines 327 and 332: the call's own key without an
\* issuer, the issuer's decoded key with one.
Signer(f, issuerKey) == IF f.issuer = 0 THEN f.key ELSE issuerKey

\* Lines 316-322: the status providers, when the request names any.
StatusProvidersStep(f) ==
    [f EXCEPT
        !.tpl.CRLDistributionPoints =
            IF f.request.StatusProviders.CRL # <<>>
            THEN f.request.StatusProviders.CRL ELSE @,
        !.tpl.OCSPServer =
            IF f.request.StatusProviders.OCSP # <<>>
            THEN f.request.StatusProviders.OCSP ELSE @]

\* Lines 338-339: the record, its CertificateData filled, is returned.
ReturnRecord(f, certificate) ==
    [f EXCEPT !.pc = "returned", !.certificate = certificate,
              !.result = <<certificate>>]

\* Lines 328-330 and 333-339: the encoder's error is returned, or the
\* record with the certificate in hex.
Encoded(f, certBytes) ==
    IF certBytes.err # <<>>
    THEN [f EXCEPT !.pc = "returned", !.err = certBytes.err]
    ELSE ReturnRecord(f, [f.certificate EXCEPT
                             !.CertificateData = EncodeToString(certBytes.val)])

\* Line 332: the issuer's decoded certificate x and key k in hand.
SignUnder(f, x, k) ==
    IF x.panic \/ k.panic THEN [f EXCEPT !.pc = "panicked"]
    ELSE Encoded(f, CreateCertificate(f.tpl, Parent(f, x.val), PublicOf(f.key),
                                      Signer(f, k.val)))

\* Lines 326-336: self-signed without an issuer, signed by the issuer with
\* one.
CreateStep(f, st) ==
    IF f.issuer = 0
    THEN Encoded(f, CreateCertificate(f.tpl, Parent(f, f.tpl), PublicOf(f.key),
                                      Signer(f, 0)))
    ELSE SignUnder(f, x509(st[f.issuer]), pKey(st[f.issuer]))

\* Lines 316-339: the status providers, the signature, the record.
SignStep(f, st) == CreateStep(StatusProvidersStep(f), st)

InLoop(f) == f.pc = "names" /\ f.i <= Len(f.request.AlternateNames)
AfterLoop(f) == f.pc = "names" /\ f.i > Len(f.request.AlternateNames)

\* The frame a call ends in when it runs alone.
RECURSIVE Run(_, _)
Run(f, st) ==
    IF f.pc = "issuer" THEN Run(IssuerStep(f, st), st)
    ELSE IF InLoop(f) THEN Run(NamesStep(f), st)
    ELSE IF AfterLoop(f) THEN Run(SignStep(f, st), st)
    ELSE f

\* GenerateCertificate(request, issuer) with the random source's two draws:
\* st is the caller's storage, issuer 0 or a place in it.
GenerateCertificate(request, issuer, st, d, draw) ==
    Run(Begin(request, issuer, IF issuer = 0 THEN <<>> ELSE <<st[issuer]>>, d, draw), st)

\* ------------------------------------------------------------------------
\* The inputs the model draws.

\* A Name by its fields.
NameOf(o, c, p, k, n) ==
    [Organization |-> o, City |-> c, Province |-> p, Country |-> k, CommonName |-> n]

StrAcme == <<65, 99, 109, 101>>                 \* "Acme"
StrOslo == <<79, 115, 108, 111>>                \* "Oslo"
StrUS == <<85, 83>>                             \* "US"
StrLeaf == <<108, 101, 97, 102>>                \* "leaf"

\* A KeyUsage by the set of its true flags.
UsageOf(S) ==
    [DigitalSignature |-> "DigitalSignature" \in S,
     ContentCommitment |-> "ContentCommitment" \in S,
     KeyEncipherment |-> "KeyEncipherment" \in S,
     DataEncipherment |-> "DataEncipherment" \in S,
     KeyAgreement |-> "KeyAgreement" \in S,
     CertSign |-> "CertSign" \in S,
     CRLSign |-> "CRLSign" \in S,
     EncipherOnly |-> "EncipherOnly" \in S,
     DecipherOnly |-> "DecipherOnly" \in S,
     ServerAuth |-> "ServerAuth" \in S,
     ClientAuth |-> "ClientAuth" \in S,
     CodeSigning |-> "CodeSigning" \in S,
     EmailProtection |-> "EmailProtection" \in S,
     TimeStamping |-> "TimeStamping" \in S,
     OCSPSigning |-> "OCSPSigning" \in S]

AltName(t, v) == [Type |-> t, Value |-> v]

\* dns a.test, b.test and (in UTF-8) e-acute.test; email a@b.test; ip
\* 192.0.2.1, 2001:db8::1, ::ffff:192.0.2.1 and not-an-ip; uri
\* HTTPS://b.test, http://a.test/a b?q=%zz#f, https://a.test./,
\* http://a.test/e-acute, ://bad and http://[::1; carrier-pigeon x.  One
\* dns name has 130 octets, so that its DER length takes the long form.
AltNameSamples ==
    {AltName("dns", [i \in 1..130 |-> 97]),
     AltName("dns", <<97, 46, 116, 101, 115, 116>>),
     AltName("dns", <<98, 46, 116, 101, 115, 116>>),
     AltName("dns", <<195, 169, 46, 116, 101, 115, 116>>),
     AltName("email", <<97, 64, 98, 46, 116, 101, 115, 116>>),
     AltName("ip", <<49, 57, 50, 46, 48, 46, 50, 46, 49>>),
     AltName("ip", <<50, 48, 48, 49, 58, 100, 98, 56, 58, 58, 49>>),
     AltName("ip", <<58, 58, 102, 102, 102, 102, 58, 49, 57, 50, 46, 48, 46, 50, 46, 49>>),
     AltName("ip", <<110, 111, 116, 45, 97, 110, 45, 105, 112>>),
     AltName("uri", <<72, 84, 84, 80, 83, 58, 47, 47, 98, 46, 116, 101, 115, 116>>),
     AltName("uri", <<104, 116, 116, 112, 58, 47, 47, 97, 46, 116, 101, 115, 116, 47,
                      97, 32, 98, 63, 113, 61, 37, 122, 122, 35, 102>>),
     AltName("uri", <<104, 116, 116, 112, 115, 58, 47, 47, 97, 46, 116, 101, 115, 116, 46, 47>>),
     AltName("uri", <<104, 116, 116, 112, 58, 47, 47, 97, 46, 116, 101, 115, 116, 47, 195, 169>>),
     AltName("uri", <<58, 47, 47, 98, 97, 100>>),
     AltName("uri", <<104, 116, 116, 112, 58, 47, 47, 91, 58, 58, 49>>),
     AltName("carrier-pigeon", <<120>>)}

AltNameLists == UNION {[1..n -> AltNameSamples] : n \in 0..MaxAltNames}

\* The octets rand.Int reads for a serial (1 << 128 takes 128 / 8 of them).
SerialOctets == 16

Pad(b) == [i \in 1..(SerialOctets - Len(b)) |-> 0] \o b

\* What the random source may give for a serial: 0, 1, 256, 2^127,
\* 2^128 - 1 and a value of eight octets.
SerialDraws ==
    {Pad(<<>>), Pad(<<1>>), Pad(<<1, 0>>),
     <<128>> \o [i \in 1..(SerialOctets - 1) |-> 0],
     [i \in 1..SerialOctets |-> 255],
     Pad(<<200, 1, 2, 3, 4, 5, 6, 77>>)}

\* A request for a root, one for a leaf, and one whose second alternate name
\* does not parse.
ReqRoot ==
    [ZeroRequest EXCEPT
        !.Subject = NameOf(StrAcme, StrOslo, <<>>, StrUS,
                           <<82, 111, 111, 116, 32, 67, 65>>),   \* "Root CA"
        !.Validity = [NotBefore |-> 1, NotAfter |-> 9],
        !.Usage = UsageOf({"CertSign", "CRLSign"}),
        !.IsCertificateAuthority = TRUE]

ReqLeaf ==
    [ZeroRequest EXCEPT
        !.Subject = NameOf(<<>>, <<>>, <<>>, <<>>, StrLeaf),
        !.Validity = [NotBefore |-> 2, NotAfter |-> 5],
        !.AlternateNames = <<AltName("dns", <<97, 46, 116, 101, 115, 116>>),
                             AltName("ip", <<49, 57, 50, 46, 48, 46, 50, 46, 49>>)>>,
        !.Usage = UsageOf({"DigitalSignature", "ServerAuth", "ClientAuth"}),
        !.IsCertificateAuthority = FALSE,
        !.StatusProviders = [CRL |-> <<<<104, 116, 116, 112, 58, 47, 47, 99, 114, 108, 46, 116, 101, 115, 116>>>>,
                             OCSP |-> <<>>]]

ReqBadName ==
    [ReqLeaf EXCEPT
        !.AlternateNames = <<AltName("dns", <<97, 46, 116, 101, 115, 116>>),
                             AltName("ip", <<110, 111, 116, 45, 97, 110, 45, 105, 112>>)>>]

\* A request for a root whose one alternate name is the uri https://a.test./
ReqDotHost ==
    [ReqRoot EXCEPT
        !.AlternateNames =
            <<AltName("uri", <<104, 116, 116, 112, 115, 58, 47, 47, 97, 46, 116,
                               101, 115, 116, 46, 47>>)>>]

\* What a call is given besides its issuer: a request and the serial's octets.
Input(r, draw) == [request |-> r, draw |-> draw]

ChainInputs == {Input(r, Pad(<<1>>)) : r \in {ReqRoot, ReqLeaf, ReqBadName}}

\* The inputs of single calls.  Over a base request the alternate names
\* vary, and with every serial and either value of IsCertificateAuthority
\* the usage flags, the subject fields and the status providers vary.
RichInputs ==
    LET base == [ZeroRequest EXCEPT
                    !.Subject = NameOf(StrAcme, <<>>, <<>>, StrUS, StrLeaf),
                    !.Validity = [NotBefore |-> 1, NotAfter |-> 9]]
        names == {[base EXCEPT !.AlternateNames = l] : l \in AltNameLists}
        usages == {[base EXCEPT !.Usage = UsageOf(S)] :
                      S \in (SUBSET {"ServerAuth", "ClientAuth", "CodeSigning",
                                     "EmailProtection", "TimeStamping",
                                     "OCSPSigning"})
                            \cup {{"CertSign", "CRLSign"},
                                  {"DigitalSignature", "KeyEncipherment", "ServerAuth"},
                                  {"EncipherOnly", "DecipherOnly", "KeyAgreement",
                                   "ContentCommitment", "DataEncipherment"}}}
        subjects == {[base EXCEPT !.Subject = NameOf(o, c, p, k, n)] :
                        o \in {<<>>, StrAcme}, c \in {<<>>, StrOslo},
                        p \in {<<>>, StrOslo}, k \in {<<>>, StrUS},
                        n \in {<<>>, StrLeaf}}
        status == {[base EXCEPT !.StatusProviders = ReqLeaf.StatusProviders],
                   [base EXCEPT !.StatusProviders =
                       [CRL |-> <<>>,
                        OCSP |-> <<<<104, 116, 116, 112, 58, 47, 47, 111, 99, 115, 112, 46, 116, 101, 115, 116>>>>]]}
        odd == {[base EXCEPT !.Subject.CommonName = n] :
                   n \in {[i \in 1..260 |-> 110],
                          <<108, 195, 169, 97, 102>>,
                          <<108, 195, 97, 102>>}}
        others == usages \cup subjects \cup status \cup odd
    IN {Input(r, Pad(<<1>>)) : r \in names}
       \cup {Input([r EXCEPT !.IsCertificateAuthority = ca], draw) :
                r \in others \cup {ReqLeaf}, ca \in BOOLEAN, draw \in SerialDraws}

\* A root issued earlier, for the calls that are given an issuer.
SampleRoot == GenerateCertificate(ReqRoot, 0, <<>>, 1, Pad(<<1>>)).result[1]

\* ------------------------------------------------------------------------
\* The state.

VARIABLES
    store,    \* the records the caller keeps, in the order they were returned
    calls,    \* the frame of each call slot
    drawn,    \* the key pairs the random source has handed out
    crashed,  \* a panic has ended the process
    access    \* the last accessor call on a stored record and its outcome

vars == <<store, calls, drawn, crashed, access>>

Slots == 1..MaxCalls

NoAccess == [op |-> "none", record |-> <<>>, panic |-> FALSE, val |-> <<>>]

Init ==
    /\ store = <<>>
    /\ calls = [c \in Slots |-> IdleFrame]
    /\ drawn = 0
    /\ crashed = FALSE
    /\ access = NoAccess

\* A root issued earlier is in the caller's storage.
InitRequest ==
    /\ store = <<SampleRoot>>
    /\ calls = [c \in Slots |-> IdleFrame]
    /\ drawn = 1
    /\ crashed = FALSE
    /\ access = NoAccess

\* ------------------------------------------------------------------------
\* The steps of a call in slot c.

\* The caller calls GenerateCertificate(request, issuer), issuer nil or one
\* of the records it keeps, while the random source has handed out fewer
\* than limit key pairs; lines 245-283 run.  Slots are interchangeable, and
\* a call takes the first one not in use.
Call(c, inputs, limit) ==
    /\ ~crashed
    /\ calls[c].pc = "idle"
    /\ \A o \in Slots : o < c => calls[o].pc # "idle"
    /\ drawn < limit
    /\ \E in \in inputs, issuer \in 0..Len(store) :
        calls' = [calls EXCEPT ![c] =
                     Begin(in.request, issuer,
                           IF issuer = 0 THEN <<>> ELSE <<store[issuer]>>,
                           drawn + 1, in.draw)]
    /\ drawn' = drawn + 1
    /\ UNCHANGED <<store, crashed, access>>

\* Lines 285-287.
DecodeIssuer(c) ==
    /\ ~crashed
    /\ calls[c].pc = "issuer"
    /\ calls' = [calls EXCEPT ![c] = IssuerStep(calls[c], store)]
    /\ crashed' = (calls'[c].pc = "panicked")
    /\ UNCHANGED <<store, drawn, access>>

\* One turn of the loop of lines 289-314.
NextName(c) ==
    /\ ~crashed
    /\ InLoop(calls[c])
    /\ calls' = [calls EXCEPT ![c] = NamesStep(calls[c])]
    /\ UNCHANGED <<store, drawn, crashed, access>>

\* Lines 316-339.
SignAndReturn(c) ==
    /\ ~crashed
    /\ AfterLoop(calls[c])
    /\ calls' = [calls EXCEPT ![c] = SignStep(calls[c], store)]
    /\ crashed' = (calls'[c].pc = "panicked")
    /\ UNCHANGED <<store, drawn, access>>

\* The caller takes the returned record and keeps it.
Keep(c) ==
    /\ ~crashed
    /\ calls[c].pc = "returned"
    /\ calls[c].result # <<>>
    /\ store' = Append(store, calls[c].result[1])
    /\ calls' = [calls EXCEPT ![c] = IdleFrame]
    /\ UNCHANGED <<drawn, crashed, access>>

\* The caller takes the returned error.
Fail(c) ==
    /\ ~crashed
    /\ calls[c].pc = "returned"
    /\ calls[c].result = <<>>
    /\ calls' = [calls EXCEPT ![c] = IdleFrame]
    /\ UNCHANGED <<store, drawn, crashed, access>>

\* ------------------------------------------------------------------------
\* Stored records read back, and stored records damaged at rest.

\* Description, x509 or pKey of the record at place i; access keeps the
\* record that was read.
Access(i, op) ==
    /\ ~crashed
    /\ \A c \in Slots : calls[c].pc = "idle"
    /\ i \in 1..Len(store)
    /\ \E r \in {IF op = "Description" THEN Description(store[i])
                  ELSE IF op = "x509" THEN x509(store[i])
                  ELSE pKey(store[i])} :
          /\ access' = [op |-> op, record |-> <<store[i]>>, panic |-> r.panic,
                        val |-> <<r.val>>]
          /\ crashed' = r.panic
    /\ UNCHANGED <<store, calls, drawn>>

\* The hex string decodes to octets that parse.
CertificateDecodes(rec) ==
    LET h == DecodeString(rec.CertificateData)
    IN h.ok /\ ParseCertificate(h.val).ok

KeyDecodes(rec) ==
    LET h == DecodeString(rec.KeyData)
    IN h.ok /\ ParsePKCS8PrivateKey(h.val).ok

\* What damage of the given kind makes of a hex string: its last octet
\* (two digits) lost, its last digit lost, its first digit no hex digit.
Damaged(h, kind) ==
    IF kind = "octet" THEN SubSeq(h, 1, Len(h) - 2)
    ELSE IF kind = "digit" THEN SubSeq(h, 1, Len(h) - 1)
    ELSE <<103>> \o Tail(h)

\* The storage damages CertificateData or KeyData of the record at place i
\* while no call is in progress; a field is damaged once, and at most
\* MaxDamage records are.
Corrupt(i, field, kind) ==
    /\ ~crashed
    /\ i \in 1..Len(store)
    /\ \A c \in Slots : calls[c].pc = "idle"
    /\ \E damaged \in {{j \in 1..Len(store) :
                            ~CertificateDecodes(store[j]) \/ ~KeyDecodes(store[j])}} :
          i \in damaged \/ Cardinality(damaged) < MaxDamage
    /\ IF field = "CertificateData"
       THEN /\ CertificateDecodes(store[i])
            /\ store' = [store EXCEPT ![i].CertificateData = Damaged(@, kind)]
       ELSE /\ KeyDecodes(store[i])
            /\ store' = [store EXCEPT ![i].KeyData = Damaged(@, kind)]
    /\ UNCHANGED <<calls, drawn, crashed, access>>

\* ------------------------------------------------------------------------
\* Specifications.

\* Calls one after the other, each given nil or a record an earlier call
\* returned: chains of up to MaxKeys certificates.
Next ==
    \/ Call(1, ChainInputs, MaxKeys)
    \/ DecodeIssuer(1)
    \/ NextName(1)
    \/ SignAndReturn(1)
    \/ Keep(1)
    \/ Fail(1)

Spec == Init /\ [][Next]_vars

\* Calls in every slot, their steps interleaved, as many calls as there are
\* slots, with a root issued earlier in the caller's storage.
NextCalls ==
    \E c \in Slots :
        \/ Call(c, ChainInputs, 1 + MaxCalls)
        \/ DecodeIssuer(c)
        \/ NextName(c)
        \/ SignAndReturn(c)
        \/ Keep(c)
        \/ Fail(c)

SpecCalls == InitRequest /\ [][NextCalls]_vars

\* One call on any request and any serial, with no issuer or under the root.
NextRequest ==
    \/ Call(1, RichInputs, MaxKeys)
    \/ DecodeIssuer(1)
    \/ NextName(1)
    \/ SignAndReturn(1)

SpecRequest == InitRequest /\ [][NextRequest]_vars

\* Calls one at a time, with stored records damaged and read back in between.
NextCorrupt ==
    \/ Call(1, {Input(r, Pad(<<1>>)) : r \in {ReqRoot, ReqBadName}}, MaxKeys - 1)
    \/ DecodeIssuer(1)
    \/ NextName(1)
    \/ SignAndReturn(1)
    \/ Keep(1)
    \/ Fail(1)
    \/ \E i \in 1..MaxKeys, op \in {"Description", "x509", "pKey"} : Access(i, op)
    \/ \E i \in 1..MaxKeys, field \in {"CertificateData", "KeyData"}, kind \in {"octet", "digit", "letter"} :
          Corrupt(i, field, kind)

SpecCorrupt == Init /\ [][NextCorrupt]_vars

\* Calls one after the other as in Spec, each given nil or a record an
\* earlier call returned, on requests of which one names the uri
\* https://a.test./ and one has an ip entry that is no IP literal.
NextIssuers ==
    \/ Call(1, {Input(r, Pad(<<1>>)) : r \in {ReqRoot, ReqDotHost, ReqBadName}}, MaxKeys)
    \/ DecodeIssuer(1)
    \/ NextName(1)
    \/ SignAndReturn(1)
    \/ Keep(1)
    \/ Fail(1)

SpecIssuers == Init /\ [][NextIssuers]_vars

\* ------------------------------------------------------------------------
\* The claims.

\* The call in slot c has returned; it has returned a record.
Returned(c) == calls[c].pc = "returned"
Succeeded(c) == Returned(c) /\ calls[c].result # <<>>

\* The record a successful call returned, and the certificate stored in it.
Record(c) == calls[c].result[1]
Stored(c) == x509(Record(c)).val

\* An ip entry that is no IP literal or a uri entry that does not parse.
BadEntry(name) ==
    \/ name.Type = "ip" /\ ~ParseIP(name.Value).ok
    \/ name.Type = "uri" /\ ~UrlParse(name.Value).ok

HasBadEntry(request) ==
    \E i \in 1..Len(request.AlternateNames) : BadEntry(request.AlternateNames[i])

\* The values of a request's entries of one type, in the request's order.
IsType(t, name) == name.Type = t
ValuesOfType(request, t) ==
    LET sel == SelectSeq(request.AlternateNames, LAMBDA name : IsType(t, name))
    IN [i \in 1..Len(sel) |-> sel[i].Value]

\* C1: a returned record's CertificateAuthority flag is true when the call
\* had no issuer, and equals request.IsCertificateAuthority when it had one.
C1_FlagFollowsRequest ==
    \A c \in Slots :
        Succeeded(c) =>
            Record(c).CertificateAuthority =
                (IF calls[c].issuer = 0 THEN TRUE
                 ELSE calls[c].args.request.IsCertificateAuthority)

\* C2: the extended key usages of the issued certificate are the true
\* extended flags of request.Usage, one entry each, in the fixed order.
C2_ExtendedUsageIssued ==
    \A c \in Slots :
        Succeeded(c) =>
            Stored(c).ExtKeyUsage = extendedUsage(calls[c].args.request.Usage)

\* C3: no decoding of a stored record ends in a process abort, neither in
\* Description, x509 or pKey nor in GenerateCertificate with the record as
\* issuer; a record that does not decode gives the caller an error.
C3_CorruptRecordIsReturned ==
    /\ ~crashed
    /\ ~access.panic
    /\ \A c \in Slots : calls[c].pc # "panicked"

\* C4: a call whose request has an ip entry that is no IP literal or a uri
\* entry that does not parse never reaches the signature, and returns an
\* error and no record, wherever the entry stands, with or without an issuer.
C4_BadEntryFailsCall ==
    \A c \in Slots :
        (calls[c].pc # "idle" /\ HasBadEntry(calls[c].args.request)) =>
            /\ ~AfterLoop(calls[c])
            /\ calls[c].pc # "panicked"
            /\ calls[c].certificate.CertificateData = <<>>
            /\ Returned(c) =>
                  /\ calls[c].result = <<>>
                  /\ calls[c].err \in {<<"invalid ip address">>, <<"url.Parse">>}
                  /\ BadEntry(calls[c].args.request.AlternateNames[calls[c].i])

\* C5: a call whose ip and uri entries all parse returns a record, the
\* certificate stored in it decodes, and its DNS, email, IP and URI lists
\* are the request's entries of type dns, email, ip and uri, each in the
\* request's order; entries of other types are in no list.
C5_NamesByType ==
    \A c \in Slots :
        (Returned(c) /\ ~HasBadEntry(calls[c].args.request)) =>
            /\ calls[c].result # <<>>
            /\ calls[c].err = <<>>
            /\ ~x509(Record(c)).panic
            /\ LET x == Stored(c)
                   r == calls[c].args.request
                   ips == ValuesOfType(r, "ip")
                   uris == ValuesOfType(r, "uri")
               IN /\ x.DNSNames = ValuesOfType(r, "dns")
                  /\ x.EmailAddresses = ValuesOfType(r, "email")
                  /\ Len(x.IPAddresses) = Len(ips)
                  /\ \A i \in 1..Len(ips) :
                        IPEqual(x.IPAddresses[i], ParseIP(ips[i]).val)
                  /\ Len(x.URIs) = Len(uris)
                  /\ \A i \in 1..Len(uris) :
                        UrlString(x.URIs[i]) = UrlString(UrlParse(uris[i]).val)

\* C6: a certificate issued without an issuer names its own subject as
\* issuer and verifies under its own fresh key; one issued with an issuer
\* names the issuer record's subject and verifies under the issuer's public
\* key, not under its own.
C6_ChainBuilding ==
    \A c \in Slots :
        Succeeded(c) =>
            LET x == Stored(c)
            IN IF calls[c].issuer = 0
               THEN /\ x.Issuer = x.Subject
                    /\ x.PublicKey = PublicOf(pKey(Record(c)).val)
                    /\ CheckSignature(x, x.PublicKey)
               ELSE LET ix == x509(calls[c].args.issuer[1]).val
                    IN /\ x.Issuer = ix.Subject
                       /\ nameFromPkix(x.Issuer) = calls[c].args.issuer[1].Subject
                       /\ x.PublicKey = PublicOf(pKey(Record(c)).val)
                       /\ CheckSignature(x, ix.PublicKey)
                       /\ ~CheckSignature(x, x.PublicKey)

C6_Witness ==
    \E c \in Slots :
        /\ Succeeded(c)
        /\ calls[c].issuer # 0
        /\ ~store[calls[c].issuer].CertificateAuthority
        /\ CheckSignature(Stored(c), x509(store[calls[c].issuer]).val.PublicKey)

\* C7: the record's Serial is the decimal string of the certificate's
\* serial number, which is positive and below 2^128.
C7_SerialPositive ==
    \A c \in Slots :
        Succeeded(c) =>
            LET n == Stored(c).SerialNumber
            IN /\ Record(c).Serial = BigString(n)
               /\ Len(n) > 0
               /\ Len(n) <= SerialOctets

\* The one value of a non-empty field, no value of an empty one.
ValueIfAny(v) == IF v = <<>> THEN <<>> ELSE <<v>>

\* C8: the name made of a request's subject has a country, organization,
\* locality or province value only when that field is not empty.
C8_EmptyFieldHasNoValue ==
    \A c \in Slots :
        calls[c].pc # "idle" =>
            LET n == calls[c].args.request.Subject
                p == calls[c].tpl.Subject
            IN /\ p.Country = ValueIfAny(n.Country)
               /\ p.Organization = ValueIfAny(n.Organization)
               /\ p.Locality = ValueIfAny(n.City)
               /\ p.Province = ValueIfAny(n.Province)

\* C9: whatever other calls are in progress, a call leaves its request and
\* its issuer record as they were given, and returns what it returns when
\* it runs alone on its request, its issuer and its draws.
C9_CallsAreIndependent ==
    \A c \in Slots :
        calls[c].pc # "idle" =>
            /\ calls[c].request = calls[c].args.request
            /\ calls[c].issuer # 0 => store[calls[c].issuer] = calls[c].args.issuer[1]
            /\ Returned(c) =>
                  LET alone == GenerateCertificate(
                                   calls[c].args.request,
                                   IF calls[c].issuer = 0 THEN 0 ELSE 1,
                                   calls[c].args.issuer,
                                   calls[c].args.d, calls[c].args.draw)
                  IN /\ calls[c].result = alone.result
                     /\ calls[c].err = alone.err

C9_Witness ==
    \E c \in Slots, o \in Slots :
        /\ c # o
        /\ Succeeded(c)
        /\ calls[o].pc = "names"
        /\ calls[o].i = 2
        /\ calls[o].args.d < calls[c].args.d
        /\ calls[c].args.request.AlternateNames # <<>>

\* C10: a returned record's CertificateAuthority flag is the CA bit of the
\* basic constraints of the certificate stored in it.
C10_FlagIsBasicConstraint ==
    \A c \in Slots :
        Succeeded(c) => Record(c).CertificateAuthority = Stored(c).IsCA

====
